---- MODULE Spec2Model ----
(***************************************************************************)
(* Hindi text -> subtitled video web app (src/app.py).                     *)
(*                                                                         *)
(* The module models                                                       *)
(*   - the pure part of build_video: str.strip, str.split, the chunking of *)
(*     the words, the time slicing and the hms_ms timestamps of the .srt;  *)
(*   - the request handler index(), the file life cycle of build_video and *)
(*     the after_request hook delayed_cleanup with its _delete thread, for *)
(*     several requests running concurrently.                              *)
(*                                                                         *)
(* A text is a sequence of one-character strings.  A timestamp written by  *)
(* hms_ms is the tuple <<HH, MM, SS, mmm>> of the numbers it prints.       *)
(***************************************************************************)
EXTENDS Integers, Sequences, FiniteSets, TLC

\* ------------------------------------------------------------ constants
WORDS_PER_CHUNK == 8

\* ------------------------------------------------------------ bounds
\* Most words in a text submitted to the subtitle builder.
MaxWords == 20
\* Audio durations 0..MaxSmallMs are all tried (besides a few long ones).
MaxSmallMs == 9
\* Concurrent requests of the server model.
NumReqs == 2
\* Values uuid4().hex[:8] is drawn from in the server model.
NumUids == 2

\* ------------------------------------------------------------ str helpers
\* Python's str.strip() and str.split() without argument both use the same
\* whitespace test; the texts of the model hold blanks and newlines.
WS == {" ", "\n"}

RECURSIVE lstrip(_)
lstrip(s) ==
    IF s = <<>> THEN <<>>
    ELSE IF Head(s) \in WS THEN lstrip(Tail(s)) ELSE s

RECURSIVE rstrip(_)
rstrip(s) ==
    IF s = <<>> THEN <<>>
    ELSE IF s[Len(s)] \in WS THEN rstrip(SubSeq(s, 1, Len(s) - 1)) ELSE s

\* text.strip()
strip(s) == rstrip(lstrip(s))

\* text.split(): the maximal runs of non-whitespace characters, in order.
RECURSIVE SplitFrom(_, _, _)
SplitFrom(s, cur, acc) ==
    IF s = <<>> THEN (IF cur = <<>> THEN acc ELSE Append(acc, cur))
    ELSE IF Head(s) \in WS
         THEN SplitFrom(Tail(s), <<>>, IF cur = <<>> THEN acc ELSE Append(acc, cur))
         ELSE SplitFrom(Tail(s), Append(cur, Head(s)), acc)

split(s) == SplitFrom(s, <<>>, <<>>)

\* " ".join(ws)
RECURSIVE join(_)
join(ws) ==
    IF ws = <<>> THEN <<>>
    ELSE IF Len(ws) = 1 THEN ws[1]
    ELSE ws[1] \o <<" ">> \o join(Tail(ws))

\* ------------------------------------------------------------ chunking
\* A range whose last value is dropped when fewer than step items follow it.
range_dropping_partial(start, stop, step) ==
    {i \in start..(stop - step) : (i - start) % step = 0}

\* range(start, stop, step) for step > 0, as the set of its values.
range(start, stop, step) ==
    {i \in start..(stop - 1) : (i - start) % step = 0}

\* The k-th smallest value of a finite set of integers (k from 1).
Nth(S, k) == CHOOSE x \in S : Cardinality({y \in S : y < x}) = k - 1

\* words[a:b] of Python: indices from 0, b clamped to the length.
Slice(words, a, b) ==
    SubSeq(words, a + 1, IF b < Len(words) THEN b ELSE Len(words))

\* chunks = [" ".join(words[i:i+WORDS_PER_CHUNK])
\*           for i in range(0, len(words), WORDS_PER_CHUNK)]
Chunks(words) ==
    LET starts == range(0, Len(words), WORDS_PER_CHUNK)
    IN  [k \in 1..Cardinality(starts) |->
            join(Slice(words, Nth(starts, k), Nth(starts, k) + WORDS_PER_CHUNK))]

\* ------------------------------------------------------------ timing
\* A slice rounded up instead of down.
slice_ms_ceil(total_ms, n) == (total_ms + n - 1) \div n

\* slice_ms = total_ms // len(chunks)        (n > 0)
slice_ms_of(total_ms, n) == total_ms \div n

\* start = (i-1) * slice_ms
chunk_start(i, slice_ms) == (i - 1) * slice_ms

\* An end that forgets the last chunk runs to the end of the audio.
chunk_end_no_last(i, n, slice_ms, total_ms) == i * slice_ms

\* end = total_ms if i == len(chunks) else i * slice_ms
chunk_end(i, n, slice_ms, total_ms) ==
    IF i = n THEN total_ms ELSE i * slice_ms

\* hms_ms(ms): the numbers printed as HH:MM:SS,mmm
hms_ms(ms) ==
    LET secs == ms \div 1000
        h    == secs \div 3600
        rem  == secs % 3600
        m    == rem \div 60
        s    == rem % 60
    IN  <<h, m, s, ms % 1000>>

\* The blocks written to the .srt file: one per chunk, numbered from 1.
\* textwrap.fill(chunk, MAX_LINE_CHARS) only turns blanks of the chunk into
\* line breaks; the block keeps the chunk as joined.
SrtBlocks(chunks, total_ms) ==
    LET n        == Len(chunks)
        slice_ms == slice_ms_of(total_ms, n)
    IN  [i \in 1..n |->
            [index |-> i,
             start |-> hms_ms(chunk_start(i, slice_ms)),
             end   |-> hms_ms(chunk_end(i, n, slice_ms, total_ms)),
             text  |-> chunks[i]]]

\* The instant an SRT timestamp denotes, in milliseconds.
SrtMs(t) == ((t[1] * 60 + t[2]) * 60 + t[3]) * 1000 + t[4]

\* ------------------------------------------------------------ state
VARIABLES
    req,    \* per request: the handler's position, its locals and its response
    fs,     \* working directory: path -> request whose data the file holds, 0 = no file
    thr     \* per request: the _delete thread started by delayed_cleanup

vars == <<req, fs, thr>>

Reqs == 1..NumReqs
\* uuid.uuid4().hex[:8]: a random draw from 16^8 values, nothing excludes a repeat.
UIDS == 1..NumUids
Exts == {"mp3", "srt", "mp4"}
Paths == UIDS \X Exts
NoPath == <<>>

mp3(uid) == <<uid, "mp3">>
srt(uid) == <<uid, "srt">>
mp4(uid) == <<uid, "mp4">>

\* os.path.exists(p)
exists(f, p) == f[p] # 0

IdleReq ==
    [pc |-> "idle", method |-> "", path |-> "", ctype |-> "", has_text |-> FALSE,
     raw |-> <<>>, text |-> <<>>, uid |-> 0, total_ms |-> 0, blocks |-> <<>>,
     video_path |-> NoPath, status |-> 0, body |-> "",
     exc |-> "", exc_at |-> "", unhandled |-> FALSE, stages |-> {}]

NoThread == [pc |-> "none", path |-> NoPath, error |-> ""]

Init ==
    /\ req = [r \in Reqs |-> IdleReq]
    /\ fs = [p \in Paths |-> 0]
    /\ thr = [r \in Reqs |-> NoThread]

\* ------------------------------------------------------------ inputs
Spaces(n) == [i \in 1..n |-> " "]
Word(k) == IF k % 2 = 0 THEN <<"a", "b">> ELSE <<"a">>

RECURSIVE WordsText(_, _)
WordsText(n, sep) ==
    IF n = 0 THEN <<>>
    ELSE IF n = 1 THEN Word(1)
    ELSE WordsText(n - 1, sep) \o sep \o Word(n)

Seps == {<<" ">>, <<"\n", " ">>}
\* Texts of 0..MaxWords words, with and without blanks around them.
RichTexts ==
    {Spaces(lead) \o WordsText(n, sep) \o Spaces(trail) :
        lead \in 0..1, n \in 0..MaxWords, sep \in Seps, trail \in 0..1}
RichDurations == (0..MaxSmallMs) \cup {999, 1000, 59999, 61001, 3600000, 3723004}


\* What a client sends: method, URL path, content type of the body and its
\* text field (has_text = FALSE: no such field).
Input(method, path, ctype, has_text, raw) ==
    [method |-> method, path |-> path, ctype |-> ctype, has_text |-> has_text, raw |-> raw]

FewInputs ==
    { Input("GET", "/", "form", FALSE, <<>>),
      Input("POST", "/", "form", TRUE, <<"a", " ", "b">>),
      Input("POST", "/", "form", TRUE, <<" ">>),
      Input("POST", "/", "form", FALSE, <<>>),
      Input("POST", "/api", "form", TRUE, <<"a", " ", "b">>),
      Input("POST", "/api", "json", TRUE, <<"a", " ", "b">>),
      Input("POST", "/api", "json", TRUE, <<>>),
      Input("POST", "/api", "json", FALSE, <<>>) }
FewDurations == {7}

RichInputs ==
    FewInputs \cup {Input("POST", "/", "form", TRUE, t) : t \in RichTexts}

\* ------------------------------------------------------------ responses
Respond(rec, status, body) ==
    [rec EXCEPT !.pc = "after_request", !.status = status, !.body = body]

\* An exception e raised at stage `at` inside build_video, seen from index():
\* the try of lines 110-113 catches subprocess.CalledProcessError only; any
\* other exception leaves index() and Flask answers 500.
Raised(rec, e, at) ==
    LET rec2 == [rec EXCEPT !.exc = e, !.exc_at = at]
    IN  IF e = "CalledProcessError"
        THEN Respond(rec2, 200, "error_page")
        ELSE [Respond(rec2, 500, "internal_error") EXCEPT !.unhandled = TRUE]

\* ------------------------------------------------------------ request handler
\* A request arrives.
Receive(r, inputs) ==
    /\ req[r].pc = "idle"
    /\ \E i \in inputs :
          req' = [req EXCEPT ![r] = [@ EXCEPT !.pc = "routing", !.method = i.method,
                     !.path = i.path, !.ctype = i.ctype, !.has_text = i.has_text,
                     !.raw = i.raw]]
    /\ UNCHANGED <<fs, thr>>

\* The URL map holds one rule: "/" with methods GET and POST.
Route(r) ==
    /\ req[r].pc = "routing"
    /\ req' = [req EXCEPT ![r] =
                  IF @.path = "/" THEN [@ EXCEPT !.pc = "index"]
                  ELSE Respond(@, 404, "not_found")]
    /\ UNCHANGED <<fs, thr>>

\* request.form.get("text", "").strip(): the form is empty unless the body is
\* form-encoded.
form_text(rec) ==
    IF rec.ctype = "form" /\ rec.has_text THEN strip(rec.raw) ELSE <<>>

\* index() up to the call of build_video.
Index(r) ==
    /\ req[r].pc = "index"
    /\ LET rec == req[r]
       IN  req' = [req EXCEPT ![r] =
                      IF rec.method = "POST"
                      THEN IF form_text(rec) = <<>>
                           THEN Respond(rec, 200, "error_page")
                           ELSE [rec EXCEPT !.pc = "uuid", !.text = form_text(rec)]
                      ELSE Respond(rec, 200, "form")]
    /\ UNCHANGED <<fs, thr>>

\* ------------------------------------------------------------ build_video
GenUid(r) ==
    /\ req[r].pc = "uuid"
    /\ \E u \in UIDS : req' = [req EXCEPT ![r] = [@ EXCEPT !.pc = "tts", !.uid = u]]
    /\ UNCHANGED <<fs, thr>>

\* gTTS(text=text, lang="hi").save(mp3): the service answers and the audio is
\* written, or the call raises gTTSError, before save() has opened the file or
\* after it (an empty file is left).
Tts(r) ==
    /\ req[r].pc = "tts"
    /\ LET rec == [req[r] EXCEPT !.stages = @ \cup {"tts"}]
       IN  \/ /\ req' = [req EXCEPT ![r] = [rec EXCEPT !.pc = "audio"]]
              /\ fs' = [fs EXCEPT ![mp3(rec.uid)] = r]
           \/ /\ req' = [req EXCEPT ![r] = Raised(rec, "gTTSError", "tts")]
              /\ fs' = [fs EXCEPT ![mp3(rec.uid)] = r]
           \/ /\ req' = [req EXCEPT ![r] = Raised(rec, "gTTSError", "tts")]
              /\ fs' = fs
    /\ UNCHANGED thr

\* AudioSegment.from_file(mp3); total_ms = len(audio)
Audio(r, durations) ==
    /\ req[r].pc = "audio"
    /\ IF exists(fs, mp3(req[r].uid))
       THEN \E ms \in durations :
                req' = [req EXCEPT ![r] = [@ EXCEPT !.pc = "subs", !.total_ms = ms]]
       ELSE req' = [req EXCEPT ![r] = Raised(@, "FileNotFoundError", "audio")]
    /\ UNCHANGED <<fs, thr>>

\* Lines 77-85: split, chunk, slice and write the .srt file.
Subtitles(r) ==
    /\ req[r].pc = "subs"
    /\ LET chunks == Chunks(split(req[r].text))
       IN  IF Len(chunks) = 0
           THEN /\ req' = [req EXCEPT ![r] = Raised(@, "ZeroDivisionError", "subs")]
                /\ fs' = fs
           ELSE /\ req' = [req EXCEPT ![r] = [@ EXCEPT !.pc = "ffmpeg",
                              !.blocks = SrtBlocks(chunks, req[r].total_ms)]]
                /\ fs' = [fs EXCEPT ![srt(req[r].uid)] = r]
    /\ UNCHANGED thr

\* run_ffmpeg(ffmpeg_cmd): subprocess.run(cmd, check=True).  The binary may be
\* missing (FileNotFoundError), the encoder may exit non-zero with or without
\* an output file written (CalledProcessError), or it succeeds, which needs
\* both of its inputs.
Ffmpeg(r) ==
    /\ req[r].pc = "ffmpeg"
    /\ LET u    == req[r].uid
           rec  == [req[r] EXCEPT !.stages = @ \cup {"ffmpeg"}]
       IN  \/ /\ req' = [req EXCEPT ![r] = Raised(rec, "FileNotFoundError", "ffmpeg")]
              /\ fs' = fs
           \/ /\ req' = [req EXCEPT ![r] = Raised(rec, "CalledProcessError", "ffmpeg")]
              /\ fs' = fs
           \/ /\ req' = [req EXCEPT ![r] = Raised(rec, "CalledProcessError", "ffmpeg")]
              /\ fs' = [fs EXCEPT ![mp4(u)] = r]
           \/ /\ exists(fs, mp3(u)) /\ exists(fs, srt(u))
              /\ req' = [req EXCEPT ![r] = [rec EXCEPT !.pc = "rm_mp3"]]
              /\ fs' = [fs EXCEPT ![mp4(u)] = r]
    /\ UNCHANGED thr

\* os.remove(p) on an existing file.
os_remove(f, p) == [f EXCEPT ![p] = 0]

\* The subtitle file is left in place.
remove_srt_skipped(f, uid) == f

remove_mp3(f, uid) == os_remove(f, mp3(uid))
remove_srt(f, uid) == os_remove(f, srt(uid))

\* os.remove(mp3)
RmMp3(r) ==
    /\ req[r].pc = "rm_mp3"
    /\ IF exists(fs, mp3(req[r].uid))
       THEN /\ fs' = remove_mp3(fs, req[r].uid)
            /\ req' = [req EXCEPT ![r] = [@ EXCEPT !.pc = "rm_srt"]]
       ELSE /\ fs' = fs
            /\ req' = [req EXCEPT ![r] = Raised(@, "FileNotFoundError", "rm_mp3")]
    /\ UNCHANGED thr

\* os.remove(srt); return mp4
RmSrt(r) ==
    /\ req[r].pc = "rm_srt"
    /\ IF exists(fs, srt(req[r].uid))
       THEN /\ fs' = remove_srt(fs, req[r].uid)
            /\ req' = [req EXCEPT ![r] = [@ EXCEPT !.pc = "returned"]]
       ELSE /\ fs' = fs
            /\ req' = [req EXCEPT ![r] = Raised(@, "FileNotFoundError", "rm_srt")]
    /\ UNCHANGED thr

\* Lines 116-119: request.video_path = video_path; send_file(video_path, ...)
\* opens the file and raises, outside the try, when it is not there.
SendFile(r) ==
    /\ req[r].pc = "returned"
    /\ LET rec == [req[r] EXCEPT !.video_path = mp4(req[r].uid)]
       IN  req' = [req EXCEPT ![r] =
                      IF exists(fs, mp4(rec.uid))
                      THEN Respond(rec, 200, "video")
                      ELSE [Respond([rec EXCEPT !.exc = "FileNotFoundError",
                                                !.exc_at = "send_file"],
                                    500, "internal_error") EXCEPT !.unhandled = TRUE]]
    /\ UNCHANGED <<fs, thr>>

\* ------------------------------------------------------------ delayed_cleanup
\* The after_request hook: starts the _delete thread for a 200 response of a
\* request that carries video_path, and hands the response on.
AfterRequest(r) ==
    /\ req[r].pc = "after_request"
    /\ req' = [req EXCEPT ![r] = [@ EXCEPT !.pc = "sending"]]
    /\ thr' = [thr EXCEPT ![r] =
                  IF req[r].status = 200 /\ req[r].video_path # NoPath
                  THEN [pc |-> "sleeping", path |-> req[r].video_path, error |-> ""]
                  ELSE @]
    /\ UNCHANGED fs

\* The server writes the response to the client; a video body is read from
\* the file handle send_file opened.
Send(r) ==
    /\ req[r].pc = "sending"
    /\ req' = [req EXCEPT ![r] = [@ EXCEPT !.pc = "done"]]
    /\ UNCHANGED <<fs, thr>>

\* The file p is held open by a response that is still being served.
HeldOpen(p) ==
    \E q \in Reqs : /\ req[q].pc \in {"after_request", "sending"}
                    /\ req[q].body = "video" /\ req[q].video_path = p

\* time.sleep(CLEANUP_DELAY) returns; if os.path.exists(path):
Check(r) ==
    /\ thr[r].pc = "sleeping"
    /\ thr' = [thr EXCEPT ![r] =
                  [@ EXCEPT !.pc = IF exists(fs, thr[r].path) THEN "remove" ELSE "finished"]]
    /\ UNCHANGED <<req, fs>>

\* os.remove(path) inside try/except Exception: the file may be gone since the
\* test, and where an open file cannot be removed (WinError 32) the call
\* fails while a response still reads it; either error is printed and dropped.
Remove(r) ==
    /\ thr[r].pc = "remove"
    /\ LET p == thr[r].path
       IN  IF ~exists(fs, p)
           THEN /\ thr' = [thr EXCEPT ![r] =
                              [@ EXCEPT !.pc = "finished", !.error = "FileNotFoundError"]]
                /\ fs' = fs
           ELSE \/ /\ thr' = [thr EXCEPT ![r] = [@ EXCEPT !.pc = "finished"]]
                   /\ fs' = os_remove(fs, p)
                \/ /\ HeldOpen(p)
                   /\ thr' = [thr EXCEPT ![r] =
                                 [@ EXCEPT !.pc = "finished", !.error = "PermissionError"]]
                   /\ fs' = fs
    /\ UNCHANGED req

\* ------------------------------------------------------------ specifications
Step(r, inputs, durations) ==
    \/ Receive(r, inputs)
    \/ Route(r)
    \/ Index(r)
    \/ GenUid(r)
    \/ Tts(r)
    \/ Audio(r, durations)
    \/ Subtitles(r)
    \/ Ffmpeg(r)
    \/ RmMp3(r)
    \/ RmSrt(r)
    \/ SendFile(r)
    \/ AfterRequest(r)
    \/ Send(r)
    \/ Check(r)
    \/ Remove(r)

\* Concurrent requests on few inputs.
Next == \E r \in Reqs : Step(r, FewInputs, FewDurations)
Spec == Init /\ [][Next]_vars

\* One request on many inputs.
NextOne == Step(1, RichInputs, RichDurations)
SpecOne == Init /\ [][NextOne]_vars

\* ------------------------------------------------------------ vocabulary of the claims
\* Whitespace-separated words of a text, counted at the places where one starts.
WordCount(s) ==
    Cardinality({i \in 1..Len(s) : s[i] \notin WS /\ (i = 1 \/ s[i - 1] \in WS)})

CeilDiv(a, b) == (a + b - 1) \div b

\* build_video of request r has written its .srt file.
SrtWritten(r) == req[r].pc = "ffmpeg" \/ "ffmpeg" \in req[r].stages

\* The response of request r has been built.
Served(r) == req[r].pc \in {"after_request", "sending", "done"}

\* No other request drew the uid of request r.
Alone(r) == \A q \in Reqs \ {r} : req[q].uid # req[r].uid

\* Request r is a 200 response that carries a produced video path.
Successful(r) == req[r].status = 200 /\ req[r].video_path # NoPath

\* Request r holds generated paths that it or its cleanup thread may still touch.
InFlight(r) ==
    /\ req[r].uid # 0
    /\ ~(req[r].pc = "done" /\ thr[r].pc \in {"none", "finished"})

\* ------------------------------------------------------------ claims

\* C1: for a text of at least one word and any audio duration, the blocks
\* written to the .srt partition [0, total_ms): there is a first block and it
\* starts at 0, the last one ends at total_ms, each block ends where the next
\* starts, and no block ends before it starts.
C1_ChunksPartitionAudio ==
    \A r \in Reqs :
        (SrtWritten(r) /\ WordCount(req[r].text) >= 1) =>
            LET b == req[r].blocks
                n == Len(b)
            IN  /\ n >= 1
                /\ SrtMs(b[1].start) = 0
                /\ SrtMs(b[n].end) = req[r].total_ms
                /\ \A i \in 1..(n - 1) : b[i].end = b[i + 1].start
                /\ \A i \in 1..n : SrtMs(b[i].start) <= SrtMs(b[i].end)

\* C1 witness: three blocks over 7 ms, which 3 does not divide.
C1_Witness ==
    \E r \in Reqs :
        /\ SrtWritten(r) /\ Len(req[r].blocks) = 3 /\ req[r].total_ms = 7
        /\ SrtMs(req[r].blocks[3].end) = 7

\* C2: the number of blocks written is ceil(word_count / WORDS_PER_CHUNK), and
\* a text of at most WORDS_PER_CHUNK words gives one block over the whole audio.
C2_ChunkCountIsCeil ==
    \A r \in Reqs :
        SrtWritten(r) =>
            LET b  == req[r].blocks
                wc == WordCount(req[r].text)
            IN  /\ Len(b) = CeilDiv(wc, WORDS_PER_CHUNK)
                /\ wc <= WORDS_PER_CHUNK =>
                       /\ Len(b) = 1
                       /\ SrtMs(b[1].start) = 0
                       /\ SrtMs(b[1].end) = req[r].total_ms

\* C2 witness: 17 words, one more than two full chunks, give three blocks.
C2_Witness ==
    \E r \in Reqs :
        SrtWritten(r) /\ WordCount(req[r].text) = 17 /\ Len(req[r].blocks) = 3

\* C3: a POST whose text has no word (missing, empty or blank) never runs the
\* speech or the encoder stage and is answered with a validation error (the
\* error page on "/", 400 on "/api"); no request dies of a division by zero.
C3_EmptyTextRejected ==
    \A r \in Reqs :
        /\ req[r].exc # "ZeroDivisionError"
        /\ (Served(r) /\ req[r].method = "POST" /\ WordCount(req[r].raw) = 0) =>
               /\ req[r].stages = {}
               /\ \/ req[r].path = "/" /\ req[r].status = 200 /\ req[r].body = "error_page"
                  \/ req[r].path = "/api" /\ req[r].status = 400

\* C4: when the encoder fails, "/" answers 200 with the error page and "/api"
\* answers 500; no video is sent and the request leaves no video file behind.
C4_EncoderFailureHandled ==
    \A r \in Reqs :
        (Served(r) /\ req[r].exc_at = "ffmpeg") =>
            /\ req[r].path = "/" => (req[r].status = 200 /\ req[r].body = "error_page")
            /\ req[r].path = "/api" => req[r].status = 500
            /\ req[r].body # "video"
            /\ fs[mp4(req[r].uid)] # r

\* C5: a failure of the speech stage or of the encoder stage is caught by the
\* handler and answered with an error response; it never leaves index() as an
\* exception, and no video is sent.
C5_StageFailuresCaught ==
    \A r \in Reqs :
        req[r].exc_at \in {"tts", "ffmpeg"} =>
            /\ ~req[r].unhandled
            /\ req[r].body = "error_page"

\* C6: after a successful response a cleanup thread exists; the video file is
\* there when the response has just been sent and as long as the thread still
\* sleeps, and it is gone once the thread has finished.
C6_VideoKeptThenDeleted ==
    [][\A r \in Reqs :
          /\ (Successful(r) /\ req[r].pc = "sending" /\ req'[r].pc = "done") =>
                 exists(fs', req[r].video_path)
          /\ (Successful(r)' /\ req'[r].pc = "done") =>
                 /\ thr'[r].pc # "none"
                 /\ thr'[r].pc = "sleeping" => exists(fs', req'[r].video_path)
                 /\ thr'[r].pc = "finished" => ~exists(fs', req'[r].video_path)]_vars

\* C7: two requests in flight never hold the same generated paths.
C7_PathsDistinct ==
    \A r \in Reqs : \A q \in Reqs \ {r} :
        (InFlight(r) /\ InFlight(q)) => req[r].uid # req[q].uid

\* C8: POST /api answers 415 to a body that is not JSON and 400 to a JSON body
\* whose text field is missing or empty.
C8_ApiRejects ==
    \A r \in Reqs :
        (Served(r) /\ req[r].method = "POST" /\ req[r].path = "/api") =>
            /\ req[r].ctype # "json" => req[r].status = 415
            /\ (req[r].ctype = "json" /\ (~req[r].has_text \/ req[r].raw = <<>>)) =>
                   req[r].status = 400

C10_SliceLengths ==
    \A r \in Reqs :
        SrtWritten(r) =>
            LET b == req[r].blocks
                n == Len(b)
                t == req[r].total_ms
            IN  /\ \A i \in 1..(n - 1) : SrtMs(b[i].end) - SrtMs(b[i].start) = t \div n
                /\ n >= 1 => SrtMs(b[n].end) - SrtMs(b[n].start) = t - (n - 1) * (t \div n)

\* C10 witness: 20 words in three blocks over an audio longer than an hour.
C10_Witness ==
    \E r \in Reqs :
        /\ SrtWritten(r) /\ WordCount(req[r].text) = 20 /\ Len(req[r].blocks) = 3
        /\ req[r].total_ms = 3723004

====
